---------------------------- MODULE Spec2Model ----------------------------
(***************************************************************************)
(* Library management front end: catalog inventory (BookService and the    *)
(* two borrow screens), the borrow ledger kept under the storage key       *)
(* borrow_records, fine generation and payment (FineService and the fines  *)
(* screen), and the borrowing eligibility rule (UserService).              *)
(*                                                                         *)
(* Time is counted in ticks; DayTicks ticks make one day (the code counts  *)
(* milliseconds, 86400000 to the day).  A handler runs at one instant.     *)
(***************************************************************************)
EXTENDS Integers, Sequences, FiniteSets, TLC

(***************************************************************************)
(* Bounds of the model.                                                    *)
(***************************************************************************)
DayTicks == 2
MaxQty == 2
MaxReq == 2
MaxAvailArg == 7
MaxLedger == 2
MaxPayments == 1
MaxFineId == 6
MaxEarlier == 4

(***************************************************************************)
(* Program constants.                                                      *)
(***************************************************************************)
MAX_BOOKS_PER_USER == 5
BORROW_PERIOD_DAYS == 14
DAILY_FINE_RATE == 5
FAILURE_REASONS == 5

\* The instants at which something happens, in ticks: the start, and half a day
\* and a day and a half after a loan of the start has fallen due.
Instants ==
  {0, BORROW_PERIOD_DAYS * DayTicks + 1, (BORROW_PERIOD_DAYS + 1) * DayTicks + 1}

None == "none"

\* The books of the seeded catalog that the model follows.
BookIds == {"BK005", "BK008"}
UnknownBook == "BK999"

createMockBooks ==
  [b \in BookIds |->
     IF b = "BK005"
       THEN [availableCopies |-> 3, totalCopies |-> 6, isAvailable |-> TRUE]
       ELSE [availableCopies |-> 2, totalCopies |-> 6, isAvailable |-> TRUE]]

\* Members already present under registered_users.
Members == {"LIB000001", "LIB000002"}

\* The order in which a screen walks its selection.
BookOrder == <<"BK005", "BK008">>

VARIABLES
  books,            \* BookService.booksSubject.value, shared by reference with the screens
  storedBooks,      \* storage key 'books'
  borrowRecords,    \* storage key 'borrow_records'
  now,              \* the clock
  ret,              \* what the last service call returned
  currentUser,      \* AuthService.currentUserSubject.value (memberId) and key 'currentUser'
  userData,         \* UserDataService.userDataSubject.value: user and borrowInfo
  loads,            \* getUserBorrowInfo results on their 500 ms way to the subscriber
  timers,           \* pending setTimeout callbacks that call refreshUserData
  page,             \* the routed component that is alive
  selectedBooks,    \* selectedBooks of the borrow screen that is alive
  showConfirmation, \* BorrowBooksComponent.showConfirmation
  fines,            \* FineService.finesSubject.value
  storedFines,      \* storage key 'fine_records'
  payments,         \* FineService.paymentsSubject.value
  storedPayments,   \* storage key 'payment_records'
  finesView,        \* FinesComponent.fines: the ids of the fine objects it shows
  emitted,          \* the newest getUserFines emission on its 300 ms way to the page
  selectedFines,    \* FinesComponent.selectedFines
  paymentModal,     \* FinesComponent: showPaymentModal and selectedPaymentMethod
  inflight,         \* processPayment calls within their 2000 ms delay
  registeredUsers,  \* storage key 'registered_users'
  millis,           \* Date.now(), the millisecond clock that member ids are cut from
  complaints,       \* ComplaintService.complaintsSubject.value and storage key 'complaints'
  adminTimers,      \* complaints with a pending simulateAdminResponse timeout
  tabBooks,         \* BookService.booksSubject.value of a second browser tab on the same store
  args,             \* the arguments of a computation looked at by itself
  result            \* what that computation returned

catalogVars == <<books, storedBooks>>
sessionVars == <<currentUser, userData, loads, timers>>
screenVars == <<page, selectedBooks, showConfirmation>>
fineVars == <<fines, storedFines, payments, storedPayments>>
finesPageVars == <<finesView, emitted, selectedFines, paymentModal, inflight>>
directoryVars == <<registeredUsers, millis>>
complaintVars == <<complaints, adminTimers>>

vars == <<books, storedBooks, borrowRecords, now, ret, currentUser, userData, loads,
          timers, page, selectedBooks, showConfirmation, fines, storedFines, payments,
          storedPayments, finesView, emitted, selectedFines, paymentModal, inflight,
          registeredUsers, millis, complaints, adminTimers, tabBooks, args, result>>

programVars == <<books, storedBooks, borrowRecords, now, ret, currentUser, userData, loads,
                 timers, page, selectedBooks, showConfirmation, fines, storedFines, payments,
                 storedPayments, finesView, emitted, selectedFines, paymentModal, inflight,
                 registeredUsers, millis, complaints, adminTimers, tabBooks>>

NoArgs == [fn |-> None]

NoRet == [op |-> None, ok |-> TRUE]

Min(a, b) == IF a < b THEN a ELSE b
Max(a, b) == IF a > b THEN a ELSE b

(***************************************************************************)
(* BookService                                                             *)
(***************************************************************************)

\* quantities[i] || 1
QuantityOrOne(q) == IF q = 0 THEN 1 ELSE q

\* books.find(b => b.id === bookId) finds a book
HasBook(bks, bookId) == bookId \in DOMAIN bks

SetAvailability(bks, bookId, n) ==
  [bks EXCEPT ![bookId].availableCopies = n, ![bookId].isAvailable = (n > 0)]

\* updateMultipleBooksAvailability: the updates applied in order, unknown ids skipped
RECURSIVE ApplyUpdates(_, _)
ApplyUpdates(bks, updates) ==
  IF updates = <<>> THEN bks
  ELSE LET u == Head(updates)
           nxt == IF HasBook(bks, u.bookId)
                    THEN SetAvailability(bks, u.bookId, u.availableCopies)
                    ELSE bks
       IN ApplyUpdates(nxt, Tail(updates))

HasChanges(bks, updates) ==
  \E i \in 1..Len(updates) : HasBook(bks, updates[i].bookId)

\* the check of borrowBooks for one requested book
CanBorrow(bks, bookId, quantity) ==
  HasBook(bks, bookId) /\ bks[bookId].availableCopies >= quantity

BorrowUpdates(bks, bookIds, quantities) ==
  [i \in 1..Len(bookIds) |->
     [bookId |-> bookIds[i],
      availableCopies |-> bks[bookIds[i]].availableCopies - QuantityOrOne(quantities[i])]]

ReturnUpdates(bks, bookIds, quantities) ==
  LET known == SelectSeq([i \in 1..Len(bookIds) |-> i], LAMBDA i : HasBook(bks, bookIds[i]))
  IN [k \in 1..Len(known) |->
        [bookId |-> bookIds[known[k]],
         availableCopies |->
           Min(bks[bookIds[known[k]]].totalCopies,
               bks[bookIds[known[k]]].availableCopies + QuantityOrOne(quantities[known[k]]))]]

Requests ==
  UNION {[1..n -> BookIds \cup {UnknownBook}] \X [1..n -> 0..MaxQty] : n \in 1..MaxReq}

\* saveBooks after a change, nothing otherwise
SaveIfChanged(bks, updates) ==
  /\ books' = ApplyUpdates(bks, updates)
  /\ storedBooks' = IF HasChanges(bks, updates) THEN books' ELSE storedBooks

borrowBooks(bookIds, quantities) ==
  /\ IF \A i \in 1..Len(bookIds) : CanBorrow(books, bookIds[i], QuantityOrOne(quantities[i]))
       THEN /\ SaveIfChanged(books, BorrowUpdates(books, bookIds, quantities))
            /\ ret' = [op |-> "borrowBooks", ok |-> TRUE]
       ELSE /\ UNCHANGED <<books, storedBooks>>
            /\ ret' = [op |-> "borrowBooks", ok |-> FALSE]
  /\ UNCHANGED <<args, result, directoryVars, complaintVars, tabBooks, borrowRecords, now, sessionVars, screenVars, fineVars, finesPageVars>>

returnBooks(bookIds, quantities) ==
  /\ SaveIfChanged(books, ReturnUpdates(books, bookIds, quantities))
  /\ ret' = [op |-> "returnBooks", ok |-> TRUE]
  /\ UNCHANGED <<args, result, directoryVars, complaintVars, tabBooks, borrowRecords, now, sessionVars, screenVars, fineVars, finesPageVars>>

updateBookAvailability(bookId, availableCopies) ==
  /\ IF HasBook(books, bookId)
       THEN /\ books' = SetAvailability(books, bookId, availableCopies)
            /\ storedBooks' = books'
       ELSE UNCHANGED <<books, storedBooks>>
  /\ ret' = [op |-> "updateBookAvailability", ok |-> TRUE]
  /\ UNCHANGED <<args, result, directoryVars, complaintVars, tabBooks, borrowRecords, now, sessionVars, screenVars, fineVars, finesPageVars>>

updateBookInventory(bookId, quantityBorrowed) ==
  /\ IF HasBook(books, bookId)
       THEN /\ books' = SetAvailability(books, bookId,
                          Max(0, books[bookId].availableCopies - quantityBorrowed))
            /\ storedBooks' = books'
            /\ ret' = [op |-> "updateBookInventory", ok |-> TRUE]
       ELSE /\ UNCHANGED <<books, storedBooks>>
            /\ ret' = [op |-> "updateBookInventory", ok |-> FALSE]
  /\ UNCHANGED <<args, result, directoryVars, complaintVars, tabBooks, borrowRecords, now, sessionVars, screenVars, fineVars, finesPageVars>>

\* borrowBooks of the BookService of a second tab: it reads its own booksSubject
\* and saveBooks writes that catalog to the store both tabs share
TabBorrowBooks(bookIds, quantities) ==
  /\ IF \A i \in 1..Len(bookIds) : CanBorrow(tabBooks, bookIds[i], QuantityOrOne(quantities[i]))
       THEN /\ tabBooks' = ApplyUpdates(tabBooks, BorrowUpdates(tabBooks, bookIds, quantities))
            /\ storedBooks' = IF HasChanges(tabBooks, BorrowUpdates(tabBooks, bookIds, quantities))
                                THEN tabBooks' ELSE storedBooks
            /\ ret' = [op |-> "borrowBooks", ok |-> TRUE]
       ELSE /\ UNCHANGED <<tabBooks, storedBooks>>
            /\ ret' = [op |-> "borrowBooks", ok |-> FALSE]
  /\ UNCHANGED <<args, result, directoryVars, complaintVars, books, borrowRecords, now, sessionVars, screenVars, fineVars, finesPageVars>>

\* refreshBooks of the second tab, and its BookService constructed again on a
\* reload: the catalog is read from the store
TabRefreshBooks ==
  /\ tabBooks' = storedBooks
  /\ ret' = NoRet
  /\ UNCHANGED <<args, result, directoryVars, complaintVars, catalogVars, borrowRecords, now, sessionVars, screenVars, fineVars, finesPageVars>>

(***************************************************************************)
(* UserService: borrow information of a registered member                  *)
(***************************************************************************)

\* !record.returnDate
NotReturned(record) == "returnDate" \notin DOMAIN record

\* record.totalBooks || record.books?.length || 0
RecordCopies(record) ==
  IF "totalBooks" \in DOMAIN record /\ record.totalBooks # 0 THEN record.totalBooks
  ELSE IF "books" \in DOMAIN record THEN Len(record.books)
  ELSE 0

\* record.books of a ledger record, when it has any
RecordBooks(record) == IF "books" \in DOMAIN record THEN record.books ELSE <<>>

RECURSIVE SumSeq(_)
SumSeq(s) == IF s = <<>> THEN 0 ELSE Head(s) + SumSeq(Tail(s))

UserRecords(records, memberId) ==
  SelectSeq(records, LAMBDA r : r.memberId = memberId)

getCurrentBorrowCount(records, memberId) ==
  LET mine == SelectSeq(UserRecords(records, memberId), NotReturned)
  IN SumSeq([i \in 1..Len(mine) |-> RecordCopies(mine[i])])

\* the days rounded down
FloorDays(later, earlier) == (later - earlier) \div DayTicks

\* Math.ceil((later - earlier) / one day), for later > earlier
CeilDays(later, earlier) == ((later - earlier) + DayTicks - 1) \div DayTicks

BookFineToday(book, today) ==
  IF today > book.dueDate THEN CeilDays(today, book.dueDate) * DAILY_FINE_RATE ELSE 0

getCurrentFines(records, memberId, today) ==
  LET mine == SelectSeq(UserRecords(records, memberId), NotReturned)
  IN SumSeq([i \in 1..Len(mine) |->
               SumSeq([k \in 1..Len(RecordBooks(mine[i])) |->
                         BookFineToday(RecordBooks(mine[i])[k], today)])])

getOverdueCount(records, memberId, today) ==
  LET mine == SelectSeq(UserRecords(records, memberId), NotReturned)
  IN SumSeq([i \in 1..Len(mine) |->
               Len(SelectSeq(RecordBooks(mine[i]), LAMBDA b : today > b.dueDate))])

\* a check that leaves the fines out
EligibleWithFines(fineTotal, overdueBooks, currentBorrowedCount, maxBooksAllowed) ==
  overdueBooks = 0 /\ currentBorrowedCount < maxBooksAllowed

\* the eligibility check of getUserBorrowInfo
IsEligible(fineTotal, overdueBooks, currentBorrowedCount, maxBooksAllowed) ==
  fineTotal = 0 /\ overdueBooks = 0 /\ currentBorrowedCount < maxBooksAllowed

getUserBorrowInfo(records, memberId, today) ==
  LET count == getCurrentBorrowCount(records, memberId)
      fineTotal == getCurrentFines(records, memberId, today)
      overdue == getOverdueCount(records, memberId, today)
  IN [libraryId |-> memberId,
      currentBorrowedCount |-> count,
      maxBooksAllowed |-> MAX_BOOKS_PER_USER,
      fines |-> fineTotal,
      overdueBooks |-> overdue,
      isEligible |-> IsEligible(fineTotal, overdue, count, MAX_BOOKS_PER_USER)]

(***************************************************************************)
(* FineService                                                             *)
(***************************************************************************)

\* calculateFineForBook(dueDate, currentDate) and UserService.calculateBookFine
calculateFineForBook(dueDate, current) ==
  IF current <= dueDate THEN [daysOverdue |-> 0, totalFine |-> 0]
  ELSE [daysOverdue |-> CeilDays(current, dueDate),
        totalFine |-> CeilDays(current, dueDate) * DAILY_FINE_RATE]

\* a find that looks for a paid fine of the borrow
MatchesPaid(fine, borrow, memberId) ==
  /\ fine.bookId = borrow.bookId
  /\ fine.memberId = memberId
  /\ fine.status = "paid"
  /\ fine.dueDate = borrow.dueDate

\* a find that does not look at the status of the fine
MatchesAnyStatus(fine, borrow, memberId) ==
  /\ fine.bookId = borrow.bookId
  /\ fine.memberId = memberId
  /\ fine.dueDate = borrow.dueDate

\* the test of existingFines.find in generateFineRecordsFromBorrowData
MatchesBorrow(fine, borrow, memberId) ==
  /\ fine.bookId = borrow.bookId
  /\ fine.memberId = memberId
  /\ fine.status = "pending"
  /\ fine.dueDate = borrow.dueDate

\* the index of the fine existingFines.find returns, 0 when it finds none
FindFine(existing, borrow, memberId) ==
  IF \E i \in 1..Len(existing) : MatchesBorrow(existing[i], borrow, memberId)
    THEN CHOOSE i \in 1..Len(existing) :
           /\ MatchesBorrow(existing[i], borrow, memberId)
           /\ \A j \in 1..(i - 1) : ~MatchesBorrow(existing[j], borrow, memberId)
    ELSE 0

NewFine(id, borrow, memberId, today) ==
  [id |-> id, memberId |-> memberId, bookId |-> borrow.bookId, dueDate |-> borrow.dueDate,
   daysOverdue |-> CeilDays(today, borrow.dueDate),
   totalFine |-> CeilDays(today, borrow.dueDate) * DAILY_FINE_RATE,
   status |-> "pending", createdDate |-> today]

\* userBorrows.forEach: existing fines are brought up to date in place, fines
\* for borrows without a pending fine are collected in newFines
RECURSIVE ForEachBorrow(_, _, _, _, _)
ForEachBorrow(existing, newFines, userBorrows, memberId, today) ==
  IF userBorrows = <<>> THEN existing \o newFines
  ELSE
    LET borrow == Head(userBorrows)
        found == FindFine(existing, borrow, memberId)
        days == CeilDays(today, borrow.dueDate)
    IN IF ~(today > borrow.dueDate)
         THEN ForEachBorrow(existing, newFines, Tail(userBorrows), memberId, today)
       ELSE IF found = 0
         THEN ForEachBorrow(
                existing,
                IF days > 0
                  THEN Append(newFines,
                              NewFine(Len(existing) + Len(newFines) + 1, borrow, memberId, today))
                  ELSE newFines,
                Tail(userBorrows), memberId, today)
       ELSE ForEachBorrow(
              IF days # existing[found].daysOverdue
                THEN [existing EXCEPT ![found].daysOverdue = days,
                                      ![found].totalFine = days * DAILY_FINE_RATE]
                ELSE existing,
              newFines, Tail(userBorrows), memberId, today)

\* generateFineRecordsFromBorrowData: the fine records it saves
generateFineRecordsFromBorrowData(existingFines, records, memberId, today) ==
  ForEachBorrow(existingFines, <<>>,
                SelectSeq(UserRecords(records, memberId), NotReturned),
                memberId, today)

\* sort((a, b) => b.createdDate - a.createdDate), which is stable
InsertByCreatedDesc(sorted, x) ==
  LET before == Cardinality({i \in 1..Len(sorted) : sorted[i].createdDate >= x.createdDate})
  IN SubSeq(sorted, 1, before) \o <<x>> \o SubSeq(sorted, before + 1, Len(sorted))

RECURSIVE SortByCreatedDesc(_)
SortByCreatedDesc(s) ==
  IF s = <<>> THEN <<>>
  ELSE InsertByCreatedDesc(SortByCreatedDesc(SubSeq(s, 1, Len(s) - 1)), s[Len(s)])

\* what the pipe of getUserFines emits for a value of fines$
PendingFinesOf(fs, memberId) ==
  SortByCreatedDesc(SelectSeq(fs, LAMBDA f : f.memberId = memberId /\ f.status = "pending"))

IdsOf(fs) == [i \in 1..Len(fs) |-> fs[i].id]

\* getUserFines: the fines are generated and saved, the pending ones are emitted
getUserFines(memberId) ==
  /\ fines' = generateFineRecordsFromBorrowData(fines, borrowRecords, memberId, now)
  /\ storedFines' = fines'
  /\ emitted' = <<IdsOf(PendingFinesOf(fines', memberId))>>

(***************************************************************************)
(* AuthService and UserDataService                                         *)
(***************************************************************************)
MaxLoads == 1
MaxTimers == 1

\* borrowInfo: null
NoBorrowInfo ==
  [libraryId |-> None, currentBorrowedCount |-> 0, maxBooksAllowed |-> 0,
   fines |-> 0, overdueBooks |-> 0, isEligible |-> FALSE]

HasInfo(info) == info.libraryId # None

NoUserData == [user |-> None, borrowInfo |-> NoBorrowInfo]

\* new Map()
EmptyMap == [x \in {} |-> 0]

\* loadUserBorrowInfo: the borrow info is computed now and delivered 500 ms later
loadUserBorrowInfo(memberId) ==
  loads' = Append(loads, getUserBorrowInfo(borrowRecords, memberId, now))

\* ngOnDestroy of FinesComponent: its subscriptions end with it
FinesPageGone ==
  /\ finesView' = <<>>
  /\ emitted' = <<>>
  /\ selectedFines' = {}
  /\ paymentModal' = "closed"
  /\ inflight' = <<>>

\* MyBooksComponent.createMockBorrowRecords: five loans of the member, dated from
\* today, of which BR003 and BR004 are not returned
createMockBorrowRecords(memberId, today) ==
  << [id |-> "BR001", memberId |-> memberId, bookId |-> "BK001",
      borrowDate |-> today - 30 * DayTicks, dueDate |-> today - 16 * DayTicks,
      returnDate |-> today - 18 * DayTicks],
     [id |-> "BR002", memberId |-> memberId, bookId |-> "BK002",
      borrowDate |-> today - 20 * DayTicks, dueDate |-> today - 6 * DayTicks,
      returnDate |-> today - 3 * DayTicks],
     [id |-> "BR003", memberId |-> memberId, bookId |-> "BK003",
      borrowDate |-> today - 10 * DayTicks, dueDate |-> today + 4 * DayTicks],
     [id |-> "BR004", memberId |-> memberId, bookId |-> "BK004",
      borrowDate |-> today - 25 * DayTicks, dueDate |-> today - 11 * DayTicks],
     [id |-> "BR005", memberId |-> memberId, bookId |-> "BK005",
      borrowDate |-> today - 5 * DayTicks, dueDate |-> today + 9 * DayTicks,
      returnDate |-> today - 1 * DayTicks] >>

\* MyBooksComponent.getBorrowRecords: mock records are stored when the ledger has
\* no records at all
getBorrowRecords(memberId) ==
  borrowRecords' = IF Len(borrowRecords) = 0
                     THEN createMockBorrowRecords(memberId, now)
                     ELSE borrowRecords

\* MyBooksComponent.loadBorrowHistory: nothing happens while isLoading
loadBorrowHistory(isLoading, memberId) ==
  IF isLoading THEN UNCHANGED borrowRecords ELSE getBorrowRecords(memberId)

\* LoginComponent.proceedWithLogin for the credentials of a registered member
Login(m) ==
  /\ page = "login"
  /\ Len(loads) < MaxLoads
  /\ currentUser' = m
  /\ loadUserBorrowInfo(m)
  /\ page' = "home"
  /\ selectedBooks' = EmptyMap
  /\ showConfirmation' = FALSE
  /\ ret' = NoRet
  /\ UNCHANGED <<args, result, directoryVars, complaintVars, tabBooks, catalogVars, borrowRecords, now, userData, timers, fineVars, finesPageVars>>

\* AuthService.logout: the subscription of UserDataService clears the user data
Logout ==
  /\ currentUser # None
  /\ currentUser' = None
  /\ userData' = NoUserData
  /\ page' = "login"
  /\ selectedBooks' = EmptyMap
  /\ showConfirmation' = FALSE
  /\ FinesPageGone
  /\ ret' = NoRet
  /\ UNCHANGED <<args, result, directoryVars, complaintVars, tabBooks, catalogVars, borrowRecords, now, loads, timers, fineVars>>

\* the next callback of loadUserBorrowInfo
DeliverBorrowInfo ==
  /\ loads # <<>>
  /\ userData' = [user |-> currentUser, borrowInfo |-> Head(loads)]
  /\ loads' = Tail(loads)
  /\ IF page = "history" /\ currentUser # None
       THEN loadBorrowHistory(FALSE, currentUser)
       ELSE UNCHANGED borrowRecords
  /\ ret' = NoRet
  /\ UNCHANGED <<args, result, directoryVars, complaintVars, tabBooks, catalogVars, now, currentUser, timers, screenVars, fineVars, finesPageVars>>

\* a setTimeout callback of a borrow screen: UserDataService.refreshUserData
RefreshUserData ==
  /\ timers > 0
  /\ timers' = timers - 1
  /\ IF currentUser # None
       THEN /\ Len(loads) < MaxLoads
            /\ loadUserBorrowInfo(currentUser)
       ELSE UNCHANGED loads
  /\ ret' = NoRet
  /\ UNCHANGED <<args, result, directoryVars, complaintVars, tabBooks, catalogVars, borrowRecords, now, currentUser, userData, screenVars, fineVars, finesPageVars>>

\* UserDataService.updateBorrowInfo({currentBorrowedCount})
updateBorrowInfo(newBorrowCount) ==
  userData' = IF HasInfo(userData.borrowInfo)
                THEN [userData EXCEPT !.borrowInfo.currentBorrowedCount = newBorrowCount]
                ELSE userData

\* the router creates the component of the page; FinesComponent loads the fines
\* of the logged-in member as it starts, MyBooksComponent the history of the member
\* of the user data
Navigate(p) ==
  /\ page \notin {"login", p}
  /\ currentUser # None
  /\ page' = p
  /\ selectedBooks' = EmptyMap
  /\ showConfirmation' = FALSE
  /\ finesView' = <<>>
  /\ selectedFines' = {}
  /\ paymentModal' = "closed"
  /\ inflight' = <<>>
  /\ IF p = "fines"
       THEN getUserFines(currentUser)
       ELSE /\ emitted' = <<>>
            /\ UNCHANGED <<fines, storedFines>>
  /\ IF p = "history" /\ userData.user # None /\ HasInfo(userData.borrowInfo)
       THEN loadBorrowHistory(loads # <<>>, userData.user)
       ELSE UNCHANGED borrowRecords
  /\ ret' = NoRet
  /\ UNCHANGED <<args, result, directoryVars, complaintVars, tabBooks, catalogVars, now, sessionVars, payments, storedPayments>>

\* the 'refresh-my-books' and 'storage' events while MyBooksComponent is alive
onRefreshMyBooks ==
  /\ page = "history"
  /\ userData.user # None
  /\ loadBorrowHistory(loads # <<>>, userData.user)
  /\ ret' = NoRet
  /\ UNCHANGED <<args, result, directoryVars, complaintVars, tabBooks, catalogVars, now, sessionVars, screenVars, fineVars, finesPageVars>>

(***************************************************************************)
(* The borrow screens: BooksComponent and BorrowBooksComponent             *)
(***************************************************************************)
Selected(sel, b) == IF b \in DOMAIN sel THEN sel[b] ELSE 0

MapSet(sel, b, q) == [x \in DOMAIN sel \cup {b} |-> IF x = b THEN q ELSE sel[x]]
MapDelete(sel, b) == [x \in DOMAIN sel \ {b} |-> sel[x]]

\* getTotalSelectedCopies
getTotalSelectedCopies(sel) ==
  SumSeq([i \in 1..Len(BookOrder) |-> Selected(sel, BookOrder[i])])

\* onQuantityChange of either screen, for the parsed quantity of the input field
onQuantityChange(bookId, quantity) ==
  /\ page \in {"books", "borrow"}
  /\ selectedBooks' =
       IF quantity <= 0 THEN MapDelete(selectedBooks, bookId)
       ELSE IF HasBook(books, bookId) /\ quantity > books[bookId].availableCopies
         THEN MapSet(selectedBooks, bookId, books[bookId].availableCopies)
         ELSE MapSet(selectedBooks, bookId, quantity)
  /\ ret' = NoRet
  /\ UNCHANGED <<args, result, directoryVars, complaintVars, tabBooks, catalogVars, borrowRecords, now, sessionVars, page, showConfirmation, fineVars, finesPageVars>>

\* BooksComponent.onBorrowBook
onBorrowBook(bookId) ==
  /\ page = "books"
  /\ userData.user # None
  /\ books[bookId].isAvailable /\ books[bookId].availableCopies # 0
  /\ selectedBooks' = MapSet(EmptyMap, bookId, 1)
  /\ ret' = NoRet
  /\ UNCHANGED <<args, result, directoryVars, complaintVars, tabBooks, catalogVars, borrowRecords, now, sessionVars, page, showConfirmation, fineVars, finesPageVars>>

\* a record due a week after the borrow date
CopyRecordWeek(memberId, bookId, today) ==
  [memberId |-> memberId, bookId |-> bookId, borrowDate |-> today,
   dueDate |-> today + 7 * DayTicks, quantity |-> 1]

\* the expanded borrow records: one for each copy, due BORROW_PERIOD_DAYS later
CopyRecord(memberId, bookId, today) ==
  [memberId |-> memberId, bookId |-> bookId, borrowDate |-> today,
   dueDate |-> today + BORROW_PERIOD_DAYS * DayTicks, quantity |-> 1]

RECURSIVE NewRecords(_, _, _, _)
NewRecords(memberId, sel, today, order) ==
  IF order = <<>> THEN <<>>
  ELSE [i \in 1..Selected(sel, Head(order)) |-> CopyRecord(memberId, Head(order), today)]
       \o NewRecords(memberId, sel, today, Tail(order))

\* books[bookIndex].availableCopies -= quantity, of BooksComponent.confirmBorrow
DecrementBook(book, quantity) ==
  LET left == book.availableCopies - quantity
  IN [book EXCEPT !.availableCopies = left,
                  !.isAvailable = IF left = 0 THEN FALSE ELSE @]

\* book.availableCopies -= quantity, of BorrowBooksComponent.processBorrow
DecrementCopies(book, quantity) ==
  [book EXCEPT !.availableCopies = @ - quantity]

\* a save that stores the new records in place of the ledger
saveOnlyNewRecords(newRecords) ==
  borrowRecords' = newRecords

\* saveBorrowRecord: the new records are pushed behind the existing ones
saveBorrowRecord(newRecords) ==
  borrowRecords' = borrowRecords \o newRecords

\* the records the screens added since the start, instant 0, stay within MaxLedger
LedgerRoom(n) ==
  Cardinality({i \in 1..Len(borrowRecords) :
                 /\ "quantity" \in DOMAIN borrowRecords[i]
                 /\ borrowRecords[i].borrowDate >= 0}) + n <= MaxLedger

\* BooksComponent.confirmBorrow
BooksConfirmBorrow ==
  /\ page = "books"
  /\ HasInfo(userData.borrowInfo) /\ userData.user # None
  /\ LedgerRoom(getTotalSelectedCopies(selectedBooks))
  /\ timers < MaxTimers
  /\ books' = [b \in BookIds |->
                 IF b \in DOMAIN selectedBooks
                   THEN DecrementBook(books[b], selectedBooks[b]) ELSE books[b]]
  /\ saveBorrowRecord(NewRecords(userData.user, selectedBooks, now, BookOrder))
  /\ storedBooks' = books'
  /\ updateBorrowInfo(userData.borrowInfo.currentBorrowedCount
                        + getTotalSelectedCopies(selectedBooks))
  /\ selectedBooks' = EmptyMap
  /\ timers' = timers + 1
  /\ ret' = NoRet
  /\ UNCHANGED <<args, result, directoryVars, complaintVars, tabBooks, now, currentUser, loads, page, showConfirmation, fineVars, finesPageVars>>

\* BorrowBooksComponent.confirmBorrow: the checks before the confirmation is shown
ConfirmChecks(info, sel, bks) ==
  /\ HasInfo(info)
  /\ DOMAIN sel # {}
  /\ info.currentBorrowedCount + getTotalSelectedCopies(sel) <= MAX_BOOKS_PER_USER
  /\ \A b \in DOMAIN sel : ~(HasBook(bks, b) /\ sel[b] > bks[b].availableCopies)

BorrowConfirmBorrow ==
  /\ page = "borrow"
  /\ showConfirmation' =
       IF ConfirmChecks(userData.borrowInfo, selectedBooks, books)
         THEN TRUE ELSE showConfirmation
  /\ ret' = NoRet
  /\ UNCHANGED <<args, result, directoryVars, complaintVars, tabBooks, catalogVars, borrowRecords, now, sessionVars, page, selectedBooks, fineVars, finesPageVars>>

\* BorrowBooksComponent.cancelBorrow
cancelBorrow ==
  /\ page = "borrow"
  /\ showConfirmation
  /\ showConfirmation' = FALSE
  /\ ret' = NoRet
  /\ UNCHANGED <<args, result, directoryVars, complaintVars, tabBooks, catalogVars, borrowRecords, now, sessionVars, page, selectedBooks, fineVars, finesPageVars>>

\* BorrowBooksComponent.processBorrow, reached from the confirmation dialog
processBorrow ==
  /\ page = "borrow"
  /\ showConfirmation
  /\ HasInfo(userData.borrowInfo) /\ userData.user # None
  /\ LedgerRoom(getTotalSelectedCopies(selectedBooks))
  /\ timers < MaxTimers
  /\ books' = [b \in BookIds |->
                 IF b \in DOMAIN selectedBooks
                   THEN DecrementCopies(books[b], selectedBooks[b]) ELSE books[b]]
  /\ updateBorrowInfo(userData.borrowInfo.currentBorrowedCount
                        + getTotalSelectedCopies(selectedBooks))
  /\ saveBorrowRecord(NewRecords(userData.user, selectedBooks, now, BookOrder))
  /\ selectedBooks' = EmptyMap
  /\ showConfirmation' = FALSE
  /\ timers' = timers + 1
  /\ ret' = NoRet
  /\ UNCHANGED <<args, result, directoryVars, complaintVars, tabBooks, storedBooks, now, currentUser, loads, page, fineVars, finesPageVars>>

(***************************************************************************)
(* FinesComponent and the payment                                          *)
(***************************************************************************)
MaxInflight == 1

FineById(fs, id) == CHOOSE f \in {fs[i] : i \in 1..Len(fs)} : f.id = id

\* the next callback of the getUserFines subscription
DeliverFines ==
  /\ page = "fines"
  /\ emitted # <<>>
  /\ finesView' = emitted[1]
  /\ emitted' = <<>>
  /\ ret' = NoRet
  /\ UNCHANGED <<args, result, directoryVars, complaintVars, tabBooks, catalogVars, borrowRecords, now, sessionVars, screenVars, fineVars,
                 selectedFines, paymentModal, inflight>>

\* onFineSelectionChange for the checkbox of a fine on the page
onFineSelectionChange(fineId, isSelected) ==
  /\ page = "fines"
  /\ \E i \in 1..Len(finesView) : finesView[i] = fineId
  /\ selectedFines' = IF isSelected THEN selectedFines \cup {fineId}
                                    ELSE selectedFines \ {fineId}
  /\ ret' = NoRet
  /\ UNCHANGED <<args, result, directoryVars, complaintVars, tabBooks, catalogVars, borrowRecords, now, sessionVars, screenVars, fineVars,
                 finesView, emitted, paymentModal, inflight>>

\* getSelectedTotal: over the fine objects the page shows
getSelectedTotal ==
  SumSeq([i \in 1..Len(finesView) |->
            IF finesView[i] \in selectedFines
              THEN FineById(fines, finesView[i]).totalFine ELSE 0])

onPaySelected ==
  /\ page = "fines"
  /\ paymentModal = "closed"
  /\ selectedFines # {}
  /\ paymentModal' = "open"
  /\ ret' = NoRet
  /\ UNCHANGED <<args, result, directoryVars, complaintVars, tabBooks, catalogVars, borrowRecords, now, sessionVars, screenVars, fineVars,
                 finesView, emitted, selectedFines, inflight>>

onPaymentMethodSelect ==
  /\ page = "fines"
  /\ paymentModal = "open"
  /\ paymentModal' = "method"
  /\ ret' = NoRet
  /\ UNCHANGED <<args, result, directoryVars, complaintVars, tabBooks, catalogVars, borrowRecords, now, sessionVars, screenVars, fineVars,
                 finesView, emitted, selectedFines, inflight>>

closePaymentModal ==
  /\ page = "fines"
  /\ paymentModal # "closed"
  /\ paymentModal' = "closed"
  /\ ret' = NoRet
  /\ UNCHANGED <<args, result, directoryVars, complaintVars, tabBooks, catalogVars, borrowRecords, now, sessionVars, screenVars, fineVars,
                 finesView, emitted, selectedFines, inflight>>

\* onSubmitPayment with a valid form: processPayment is called; at most
\* maxInflight calls are under way and at most maxPayments payments are made
SubmitPayment(maxInflight, maxPayments) ==
  /\ page = "fines"
  /\ currentUser # None
  /\ paymentModal = "method"
  /\ Len(inflight) < maxInflight
  /\ Len(payments) + Len(inflight) < maxPayments
  /\ inflight' = Append(inflight, [memberId |-> currentUser,
                                    fineIds |-> selectedFines,
                                    totalAmount |-> getSelectedTotal])
  /\ ret' = NoRet
  /\ UNCHANGED <<args, result, directoryVars, complaintVars, tabBooks, catalogVars, borrowRecords, now, sessionVars, screenVars, fineVars,
                 finesView, emitted, selectedFines, paymentModal>>

onSubmitPayment == SubmitPayment(MaxInflight, MaxPayments)

\* a map that leaves the fines as they are
MarkNone(fs, fineIds) == fs

\* fines.map: the fines of the request become paid
MarkPaid(fs, fineIds) ==
  [i \in 1..Len(fs) |-> IF fs[i].id \in fineIds THEN [fs[i] EXCEPT !.status = "paid"] ELSE fs[i]]

PaymentRecord(request, fs, today) ==
  [memberId |-> request.memberId,
   amount |-> request.totalAmount,
   paymentDate |-> today,
   fineRecords |-> SelectSeq(fs, LAMBDA f : f.id \in request.fineIds),
   status |-> "completed"]

\* processPayment, isSuccess: the payment is recorded and the fines are paid; the
\* page clears its selection, loads the fines again and refreshes the user data
PaymentSucceeds ==
  /\ page = "fines"
  /\ inflight # <<>>
  /\ Len(loads) < MaxLoads
  /\ LET request == Head(inflight)
         paid == MarkPaid(fines, request.fineIds)
     IN /\ payments' = <<PaymentRecord(request, fines, now)>> \o payments
        /\ storedPayments' = payments'
        /\ fines' = generateFineRecordsFromBorrowData(paid, borrowRecords, currentUser, now)
        /\ storedFines' = fines'
        /\ emitted' = <<IdsOf(PendingFinesOf(fines', currentUser))>>
  /\ inflight' = Tail(inflight)
  /\ paymentModal' = "closed"
  /\ selectedFines' = {}
  /\ loadUserBorrowInfo(currentUser)
  /\ ret' = [op |-> "processPayment", ok |-> TRUE]
  /\ UNCHANGED <<args, result, directoryVars, complaintVars, tabBooks, catalogVars, borrowRecords, now, currentUser, userData, timers, screenVars,
                 finesView>>

\* a failure that records the payment all the same
PaymentFailsCharged(reason) ==
  /\ page = "fines"
  /\ inflight # <<>>
  /\ inflight' = Tail(inflight)
  /\ payments' = <<PaymentRecord(Head(inflight), fines, now)>> \o payments
  /\ storedPayments' = payments'
  /\ ret' = [op |-> "processPayment", ok |-> FALSE, reason |-> reason]
  /\ UNCHANGED <<args, result, directoryVars, complaintVars, tabBooks, catalogVars, borrowRecords, now, sessionVars, screenVars,
                 fines, storedFines, finesView, emitted, selectedFines, paymentModal>>

\* processPayment, not isSuccess: one of the failure reasons is reported
PaymentFails(reason) ==
  /\ page = "fines"
  /\ inflight # <<>>
  /\ inflight' = Tail(inflight)
  /\ ret' = [op |-> "processPayment", ok |-> FALSE, reason |-> reason]
  /\ UNCHANGED <<args, result, directoryVars, complaintVars, tabBooks, catalogVars, borrowRecords, now, sessionVars, screenVars, fineVars,
                 finesView, emitted, selectedFines, paymentModal>>

\* time passes between two handlers
AdvanceClock ==
  /\ \E t \in Instants : t > now /\ now' = t
  /\ ret' = NoRet
  /\ UNCHANGED <<args, result, directoryVars, complaintVars, tabBooks, catalogVars, borrowRecords, sessionVars, screenVars, fineVars, finesPageVars>>

(***************************************************************************)
(* MemberService, AuthService.login and the profile page                   *)
(***************************************************************************)
MaxUsers == 2

\* slice(-6): the digits of the clock that a member id keeps
ID_DIGITS == 6
IdSpan == 10 ^ ID_DIGITS

\* The clock counts the milliseconds from an instant whose last ID_DIGITS
\* digits are 0 (Date.now() has 13 digits).
MsInstants == {0, 1, IdSpan}

Digits == <<"0", "1", "2", "3", "4", "5", "6", "7", "8", "9">>

\* Date.now().toString().slice(-6)
RECURSIVE LastDigits(_, _)
LastDigits(n, k) ==
  IF k = 0 THEN "" ELSE LastDigits(n \div 10, k - 1) \o Digits[(n % 10) + 1]

\* 'LIB' + Date.now().toString().slice(-6)
LibId(ms) == "LIB" \o LastDigits(ms, ID_DIGITS)

\* An email address is a name in lower case, written with capitals or not and
\* with blanks around it or not.
Emails ==
  {e \in [name : {"ana@lib", "bo@lib"}, caps : BOOLEAN, pad : BOOLEAN] : ~(e.caps /\ e.pad)}
toLowerCase(e) == [e EXCEPT !.caps = FALSE]
trim(e) == [e EXCEPT !.pad = FALSE]

Passwords == {"Secret#1", "secret#1"}
CountryCodes == {"+91", "+1"}
MobileNumbers == {"9000000001"}

\* what the registration and profile forms accept as an email: no blanks around it
FormEmails == {e \in Emails : ~e.pad}

MemberRequests ==
  [email : FormEmails, password : Passwords, countryCode : CountryCodes,
   mobileNumber : MobileNumbers]

User(id, email, password, countryCode, mobileNumber) ==
  [id |-> id, email |-> email, password |-> password,
   countryCode |-> countryCode, mobileNumber |-> mobileNumber]

\* the two members of Members as registered_users holds them
SeededUsers ==
  << User("LIB000001", [name |-> "ana@lib", caps |-> FALSE, pad |-> FALSE],
          "Secret#1", "+91", "9000000001"),
     User("LIB000002", [name |-> "bo@lib", caps |-> FALSE, pad |-> FALSE],
          "secret#1", "+1", "9000000001") >>

\* a comparison of the emails as they are written
emailExistsExact(users, email) ==
  \E i \in 1..Len(users) : users[i].email = email

\* registeredUsers.some(user => user.email.toLowerCase() === email.toLowerCase())
emailExists(users, email) ==
  \E i \in 1..Len(users) : toLowerCase(users[i].email) = toLowerCase(email)

\* MemberService.registerMember; ret keeps the email of the request beside the response
registerMember(memberData) ==
  /\ IF emailExists(registeredUsers, memberData.email)
       THEN /\ ret' = [op |-> "registerMember", ok |-> FALSE, email |-> memberData.email,
                       reason |-> "Email already registered."]
            /\ UNCHANGED registeredUsers
       ELSE /\ Len(registeredUsers) < MaxUsers
            /\ registeredUsers' =
                 Append(registeredUsers,
                        User(LibId(millis), toLowerCase(memberData.email),
                             memberData.password, memberData.countryCode,
                             memberData.mobileNumber))
            /\ ret' = [op |-> "registerMember", ok |-> TRUE, email |-> memberData.email,
                       memberId |-> LibId(millis)]
  /\ UNCHANGED <<args, result, millis, complaintVars, tabBooks, catalogVars, borrowRecords,
                 now, sessionVars, screenVars, fineVars, finesPageVars>>

\* the millisecond clock moves on
TickMillis ==
  /\ \E t \in MsInstants : t > millis /\ millis' = t
  /\ ret' = NoRet
  /\ UNCHANGED <<args, result, registeredUsers, complaintVars, tabBooks, catalogVars,
                 borrowRecords, now, sessionVars, screenVars, fineVars, finesPageVars>>

\* users.find(user => user.email.toLowerCase().trim() === normalizedEmail): the
\* index of the first such user, 0 if there is none
FirstWithEmail(users, email) ==
  LET hits == {i \in 1..Len(users) : trim(toLowerCase(users[i].email)) = trim(toLowerCase(email))}
  IN IF hits = {} THEN 0 ELSE CHOOSE i \in hits : \A j \in hits : i <= j

findUserByEmail(users, email) == FirstWithEmail(users, email) # 0

\* MemberService.validateCredentials
validateCredentials(users, email, password) ==
  /\ findUserByEmail(users, email)
  /\ users[FirstWithEmail(users, email)].password = password

\* AuthService.login; UserDataService and an open fines page follow currentUser$
AuthLogin(credentials) ==
  LET isValid == validateCredentials(registeredUsers, credentials.email, credentials.password)
      user == registeredUsers[FirstWithEmail(registeredUsers, credentials.email)]
  IN /\ IF isValid
          THEN /\ Len(loads) < MaxLoads
               /\ currentUser' = user.id
               /\ loadUserBorrowInfo(user.id)
               /\ IF page = "fines"
                    THEN getUserFines(user.id)
                    ELSE UNCHANGED <<fines, storedFines, emitted>>
               /\ ret' = [op |-> "login", ok |-> TRUE, memberId |-> user.id]
          ELSE /\ UNCHANGED <<currentUser, loads, fines, storedFines, emitted>>
               /\ ret' = [op |-> "login", ok |-> FALSE]
     /\ UNCHANGED <<args, result, directoryVars, complaintVars, tabBooks, catalogVars,
                    borrowRecords, now, userData, timers, screenVars, payments, storedPayments,
                    finesView, selectedFines, paymentModal, inflight>>

\* registeredUsers.findIndex(u => u.id === id), 0 if there is none
IndexOfId(users, id) ==
  LET hits == {i \in 1..Len(users) : users[i].id = id}
  IN IF hits = {} THEN 0 ELSE CHOOSE i \in hits : \A j \in hits : i <= j

\* ProfileComponent.onSaveChanges for the profile of the logged-in member
onSaveChanges(form) ==
  LET userIndex == IndexOfId(registeredUsers, currentUser)
  IN /\ currentUser # None
     /\ userIndex # 0
     /\ registeredUsers' =
          [registeredUsers EXCEPT ![userIndex].email = toLowerCase(trim(form.email)),
                                  ![userIndex].countryCode = form.countryCode,
                                  ![userIndex].mobileNumber = form.mobileNumber]
     /\ ret' = [op |-> "onSaveChanges", ok |-> TRUE]
     /\ UNCHANGED <<args, result, millis, complaintVars, tabBooks, catalogVars, borrowRecords,
                    now, sessionVars, screenVars, fineVars, finesPageVars>>

(***************************************************************************)
(* ComplaintService                                                        *)
(***************************************************************************)
MaxComplaints == 2

\* ComplaintStatus
Statuses == {"Open", "In Progress", "Resolved", "Closed"}

\* ComplaintAction.action
ComplaintActions == {"confirm_resolution", "reopen", "close"}

\* the titles a complaint form is sent with
Titles == {"noise", "late fee"}

\* generateComplaintId: an id no earlier complaint has; complaints are never
\* removed, so the model numbers them
generateComplaintId == Len(complaints) + 1

\* complaints.findIndex(c => c.id === complaintId), 0 when there is none
ComplaintIndex(complaintId) ==
  IF \E i \in 1..Len(complaints) : complaints[i].id = complaintId
    THEN CHOOSE i \in 1..Len(complaints) : complaints[i].id = complaintId
    ELSE 0

\* complaints[complaintIndex].status = status
SetStatus(complaintId, status) ==
  [complaints EXCEPT ![ComplaintIndex(complaintId)].status = status]

submitComplaint(formData) ==
  /\ Len(complaints) < MaxComplaints
  /\ IF currentUser = None
       THEN /\ UNCHANGED complaints
            /\ ret' = [op |-> "submitComplaint", ok |-> FALSE]
       ELSE /\ complaints' = <<[id |-> generateComplaintId, memberId |-> currentUser,
                                 title |-> formData.title, status |-> "Open"]>> \o complaints
            /\ ret' = [op |-> "submitComplaint", ok |-> TRUE,
                        complaintId |-> generateComplaintId]
  /\ UNCHANGED adminTimers
  /\ UNCHANGED <<args, result, directoryVars, tabBooks, catalogVars, borrowRecords, now, sessionVars, screenVars, fineVars, finesPageVars>>

\* simulateAdminResponse, which ComplaintsComponent calls for the id of a complaint
\* it has submitted: a timeout of 3000 ms is set
simulateAdminResponse(complaintId) ==
  /\ ComplaintIndex(complaintId) # 0
  /\ complaintId \notin adminTimers
  /\ adminTimers' = adminTimers \cup {complaintId}
  /\ ret' = NoRet
  /\ UNCHANGED complaints
  /\ UNCHANGED <<args, result, directoryVars, tabBooks, catalogVars, borrowRecords, now, sessionVars, screenVars, fineVars, finesPageVars>>

\* the timeout of simulateAdminResponse: updateComplaintStatus(id, 'In Progress')
AdminResponds(complaintId) ==
  /\ complaintId \in adminTimers
  /\ adminTimers' = adminTimers \ {complaintId}
  /\ complaints' = IF ComplaintIndex(complaintId) = 0 THEN complaints
                                                      ELSE SetStatus(complaintId, "In Progress")
  /\ ret' = NoRet
  /\ UNCHANGED <<args, result, directoryVars, tabBooks, catalogVars, borrowRecords, now, sessionVars, screenVars, fineVars, finesPageVars>>

updateComplaintStatus(complaintId, status) ==
  /\ IF ComplaintIndex(complaintId) = 0
       THEN /\ UNCHANGED complaints
            /\ ret' = [op |-> "updateComplaintStatus", ok |-> FALSE]
       ELSE /\ complaints' = SetStatus(complaintId, status)
            /\ ret' = [op |-> "updateComplaintStatus", ok |-> TRUE]
  /\ UNCHANGED adminTimers
  /\ UNCHANGED <<args, result, directoryVars, tabBooks, catalogVars, borrowRecords, now, sessionVars, screenVars, fineVars, finesPageVars>>

handleComplaintAction(action) ==
  /\ LET i == ComplaintIndex(action.complaintId)
         refused == /\ UNCHANGED complaints
                    /\ ret' = [op |-> "handleComplaintAction", ok |-> FALSE]
         done(status) == /\ complaints' = SetStatus(action.complaintId, status)
                         /\ ret' = [op |-> "handleComplaintAction", ok |-> TRUE]
     IN IF i = 0 THEN refused
        ELSE IF action.action = "confirm_resolution"
          THEN IF complaints[i].status # "Resolved" THEN refused ELSE done("Closed")
        ELSE IF action.action = "reopen"
          THEN IF complaints[i].status = "Closed" THEN refused ELSE done("Open")
        ELSE done("Closed")
  /\ UNCHANGED adminTimers
  /\ UNCHANGED <<args, result, directoryVars, tabBooks, catalogVars, borrowRecords, now, sessionVars, screenVars, fineVars, finesPageVars>>

\* updateComplaint: the details of an open complaint are replaced
updateComplaint(complaintId, formData) ==
  /\ LET i == ComplaintIndex(complaintId)
     IN IF i = 0 \/ complaints[i].status # "Open"
          THEN /\ UNCHANGED complaints
               /\ ret' = [op |-> "updateComplaint", ok |-> FALSE]
          ELSE /\ complaints' = [complaints EXCEPT ![i].title = formData.title]
               /\ ret' = [op |-> "updateComplaint", ok |-> TRUE]
  /\ UNCHANGED adminTimers
  /\ UNCHANGED <<args, result, directoryVars, tabBooks, catalogVars, borrowRecords, now, sessionVars, screenVars, fineVars, finesPageVars>>

\* the services as constructed over a store whose borrow_records holds records
InitWith(records, users) ==
  /\ books = createMockBooks
  /\ storedBooks = createMockBooks
  /\ borrowRecords = records
  /\ now = 0
  /\ ret = NoRet
  /\ currentUser = None
  /\ userData = NoUserData
  /\ loads = <<>>
  /\ timers = 0
  /\ page = "login"
  /\ selectedBooks = EmptyMap
  /\ showConfirmation = FALSE
  /\ fines = <<>>
  /\ storedFines = <<>>
  /\ payments = <<>>
  /\ storedPayments = <<>>
  /\ finesView = <<>>
  /\ emitted = <<>>
  /\ selectedFines = {}
  /\ paymentModal = "closed"
  /\ inflight = <<>>
  /\ registeredUsers = users
  /\ millis = 0
  /\ complaints = <<>>
  /\ adminTimers = {}
  /\ tabBooks = createMockBooks

InitProgram == InitWith(<<>>, SeededUsers)

Init ==
  /\ InitProgram
  /\ args = NoArgs
  /\ result = NoArgs

(***************************************************************************)
(* The fine of one loan and the eligibility of one member, by themselves   *)
(***************************************************************************)
MaxDate == 12
MaxCount == 6

\* UserService.calculateBookFine(dueDate, returnDate)
calculateBookFine(dueDate, returned) ==
  IF returned <= dueDate THEN 0 ELSE CeilDays(returned, dueDate) * 5

\* validateUserEligibility: the message it shows
validateUserEligibility(userInfo) ==
  IF userInfo.fines > 0 THEN "fines"
  ELSE IF userInfo.overdueBooks > 0 THEN "overdue"
  ELSE IF userInfo.currentBorrowedCount >= MAX_BOOKS_PER_USER THEN "maximum"
  ELSE "welcome"

InitFineCalc ==
  /\ InitProgram
  /\ args \in [fn : {"fine"}, dueDate : 0..MaxDate, current : 0..MaxDate]
  /\ result = NoArgs

CallCalculateFineForBook ==
  /\ args.fn = "fine"
  /\ result' = [fn |-> "calculateFineForBook",
                out |-> calculateFineForBook(args.dueDate, args.current)]
  /\ UNCHANGED <<programVars, args>>

CallCalculateBookFine ==
  /\ args.fn = "fine"
  /\ result' = [fn |-> "calculateBookFine",
                out |-> calculateBookFine(args.dueDate, args.current)]
  /\ UNCHANGED <<programVars, args>>

NextFineCalc ==
  \/ CallCalculateFineForBook
  \/ CallCalculateBookFine

SpecFineCalc == InitFineCalc /\ [][NextFineCalc]_vars

\* the borrow info of the arguments, as getUserBorrowInfo fills it in
ArgsBorrowInfo ==
  [libraryId |-> "LIB000001",
   currentBorrowedCount |-> args.currentBorrowedCount,
   maxBooksAllowed |-> MAX_BOOKS_PER_USER,
   fines |-> args.fines,
   overdueBooks |-> args.overdueBooks,
   isEligible |-> IsEligible(args.fines, args.overdueBooks, args.currentBorrowedCount,
                             MAX_BOOKS_PER_USER)]

\* a catalog with copies to spare, so that only the limit of the member decides
PlentyBooks ==
  [b \in BookIds |-> [createMockBooks[b] EXCEPT !.availableCopies = @ + MAX_BOOKS_PER_USER,
                                                !.totalCopies = @ + MAX_BOOKS_PER_USER]]

InitEligibility ==
  /\ InitProgram
  /\ args \in [fn : {"eligibility"}, fines : {0, DAILY_FINE_RATE}, overdueBooks : 0..1,
               currentBorrowedCount : 0..MaxCount, quantity : 1..MaxQty]
  /\ result = NoArgs

CallGetUserBorrowInfo ==
  /\ args.fn = "eligibility"
  /\ result' = [fn |-> "getUserBorrowInfo", out |-> ArgsBorrowInfo.isEligible]
  /\ UNCHANGED <<programVars, args>>

CallValidateUserEligibility ==
  /\ args.fn = "eligibility"
  /\ result' = [fn |-> "validateUserEligibility",
                out |-> validateUserEligibility(ArgsBorrowInfo)]
  /\ UNCHANGED <<programVars, args>>

\* BorrowBooksComponent.confirmBorrow for a selection of args.quantity copies of one book
CallConfirmBorrow ==
  /\ args.fn = "eligibility"
  /\ result' = [fn |-> "confirmBorrow",
                out |-> ConfirmChecks(ArgsBorrowInfo,
                                      MapSet(EmptyMap, "BK008", args.quantity), PlentyBooks)]
  /\ UNCHANGED <<programVars, args>>

NextEligibility ==
  \/ CallGetUserBorrowInfo
  \/ CallValidateUserEligibility
  \/ CallConfirmBorrow

SpecEligibility == InitEligibility /\ [][NextEligibility]_vars

\* returnDate: undefined
NoDate == 0 - 1

\* a status computed with the due date looked at first
StatusByDueDate(dueDate, returnDate, today) ==
  IF today > dueDate THEN "Overdue"
  ELSE IF returnDate # NoDate THEN "Returned"
  ELSE "Borrowed"

\* UserService.getBookStatus(dueDate, returnDate?), at the instant today;
\* a returnDate of NoDate is the absent one
getBookStatus(dueDate, returnDate, today) ==
  IF returnDate # NoDate THEN "Returned"
  ELSE IF today > dueDate THEN "Overdue"
  ELSE "Borrowed"

\* MyBooksComponent.determineStatus(dueDate, returnDate?), at the instant today
determineStatus(dueDate, returnDate, today) ==
  IF returnDate # NoDate THEN "Returned"
  ELSE IF today > dueDate THEN "Overdue"
  ELSE "Borrowed"

\* one record of the ledger, with or without a return date, looked at over time
InitStatus ==
  /\ InitProgram
  /\ args \in [fn : {"status"}, dueDate : 0..MaxDate, returnDate : {NoDate} \cup 0..MaxDate,
               today : 0..MaxDate]
  /\ result = NoArgs

CallGetBookStatus ==
  /\ args.fn = "status"
  /\ result' = [fn |-> "getBookStatus",
                out |-> getBookStatus(args.dueDate, args.returnDate, args.today)]
  /\ UNCHANGED <<programVars, args>>

CallDetermineStatus ==
  /\ args.fn = "status"
  /\ result' = [fn |-> "determineStatus",
                out |-> determineStatus(args.dueDate, args.returnDate, args.today)]
  /\ UNCHANGED <<programVars, args>>

\* the clock goes on; the views compute the status anew
AdvanceToday ==
  /\ args.fn = "status"
  /\ args.today < MaxDate
  /\ result.fn # None
  /\ args' = [args EXCEPT !.today = @ + 1]
  /\ result' = [result EXCEPT !.out = IF result.fn = "getBookStatus"
                     THEN getBookStatus(args.dueDate, args.returnDate, args'.today)
                     ELSE determineStatus(args.dueDate, args.returnDate, args'.today)]
  /\ UNCHANGED programVars

NextStatus ==
  \/ CallGetBookStatus
  \/ CallDetermineStatus
  \/ AdvanceToday

SpecStatus == InitStatus /\ [][NextStatus]_vars

\* calls of the BookService operations
NextService ==
  \/ \E r \in Requests : borrowBooks(r[1], r[2])
  \/ \E r \in Requests : returnBooks(r[1], r[2])
  \/ \E b \in BookIds \cup {UnknownBook}, n \in 0..MaxAvailArg : updateBookAvailability(b, n)
  \/ \E b \in BookIds \cup {UnknownBook}, q \in 0..MaxQty : updateBookInventory(b, q)

\* a member at the borrow screens
NextScreens ==
  \/ \E m \in Members : Login(m)
  \/ Logout
  \/ DeliverBorrowInfo
  \/ RefreshUserData
  \/ \E p \in {"books", "borrow"} : Navigate(p)
  \/ \E b \in BookIds, q \in 0..MaxQty : onQuantityChange(b, q)
  \/ \E b \in BookIds : onBorrowBook(b)
  \/ BooksConfirmBorrow
  \/ BorrowConfirmBorrow
  \/ cancelBorrow
  \/ processBorrow
  \/ AdvanceClock

\* a member who borrows, lets the loans run overdue and pays the fines
NextFines ==
  \/ \E m \in Members : Login(m)
  \/ Logout
  \/ DeliverBorrowInfo
  \/ RefreshUserData
  \/ \E p \in {"books", "fines"} : Navigate(p)
  \/ \E b \in BookIds, q \in 1..MaxQty : onQuantityChange(b, q)
  \/ BooksConfirmBorrow
  \/ AdvanceClock
  \/ DeliverFines
  \/ \E id \in 1..MaxFineId, c \in BOOLEAN : onFineSelectionChange(id, c)
  \/ onPaySelected
  \/ onPaymentMethodSelect
  \/ closePaymentModal
  \/ onSubmitPayment
  \/ PaymentSucceeds
  \/ \E k \in 1..FAILURE_REASONS : PaymentFails(k)

\* a book of the catalog beside the two of BookIds
OtherBook == "BK001"

\* what earlier sessions of a member left in borrow_records: up to MaxEarlier
\* copies of OtherBook, borrowed before instant 0 and not returned
EarlierRecords(n) == [i \in 1..n |-> CopyRecord("LIB000001", OtherBook, 0 - 1)]

InitLimit ==
  /\ \E n \in 0..MaxEarlier : InitWith(EarlierRecords(n), SeededUsers)
  /\ args = NoArgs
  /\ result = NoArgs

\* a member who keeps borrowing on either screen
NextLimit ==
  \/ Login("LIB000001")
  \/ DeliverBorrowInfo
  \/ RefreshUserData
  \/ \E p \in {"books", "borrow"} : Navigate(p)
  \/ \E b \in BookIds, q \in 0..MaxQty : onQuantityChange(b, q)
  \/ BooksConfirmBorrow
  \/ BorrowConfirmBorrow
  \/ cancelBorrow
  \/ processBorrow

SpecLimit == InitLimit /\ [][NextLimit]_vars

\* a fresh store: nobody is registered
InitMembers ==
  /\ InitWith(<<>>, <<>>)
  /\ args = NoArgs
  /\ result = NoArgs

\* registrations, logins and profile edits
NextMembers ==
  \/ \E memberData \in MemberRequests : registerMember(memberData)
  \/ \E credentials \in [email : Emails, password : Passwords] : AuthLogin(credentials)
  \/ \E form \in [email : FormEmails, countryCode : CountryCodes,
                    mobileNumber : MobileNumbers] : onSaveChanges(form)
  \/ DeliverBorrowInfo
  \/ TickMillis

SpecMembers == InitMembers /\ [][NextMembers]_vars

\* a member who borrows on both screens, pays fines and looks at the history
NextLedger ==
  \/ Login("LIB000001")
  \/ DeliverBorrowInfo
  \/ RefreshUserData
  \/ \E p \in {"books", "borrow", "fines", "history"} : Navigate(p)
  \/ onQuantityChange("BK005", 1)
  \/ BooksConfirmBorrow
  \/ BorrowConfirmBorrow
  \/ processBorrow
  \/ onRefreshMyBooks
  \/ AdvanceClock
  \/ DeliverFines
  \/ onFineSelectionChange(1, TRUE)
  \/ onPaySelected
  \/ onPaymentMethodSelect
  \/ onSubmitPayment
  \/ PaymentSucceeds

SpecLedger == Init /\ [][NextLedger]_vars

\* two tabs on one store, each borrowing copies of one book at a time
NextTabs ==
  \/ \E b \in BookIds, q \in 1..MaxQty : borrowBooks(<<b>>, <<q>>)
  \/ \E b \in BookIds, q \in 1..MaxQty : TabBorrowBooks(<<b>>, <<q>>)
  \/ TabRefreshBooks

SpecTabs == Init /\ [][NextTabs]_vars

\* members who send complaints, and the calls of the ComplaintService
NextComplaints ==
  \/ \E m \in Members : Login(m)
  \/ Logout
  \/ DeliverBorrowInfo
  \/ \E t \in Titles : submitComplaint([title |-> t])
  \/ \E c \in 1..(MaxComplaints + 1) : simulateAdminResponse(c)
  \/ \E c \in 1..(MaxComplaints + 1) : AdminResponds(c)
  \/ \E c \in 1..(MaxComplaints + 1), st \in Statuses : updateComplaintStatus(c, st)
  \/ \E c \in 1..(MaxComplaints + 1), a \in ComplaintActions :
       handleComplaintAction([action |-> a, complaintId |-> c])
  \/ \E c \in 1..(MaxComplaints + 1), t \in Titles : updateComplaint(c, [title |-> t])

SpecComplaints == Init /\ [][NextComplaints]_vars

\* a member who borrows on both screens, opens the history and gives copies back
NextCopies ==
  \/ Login("LIB000001")
  \/ DeliverBorrowInfo
  \/ RefreshUserData
  \/ \E p \in {"books", "borrow", "history"} : Navigate(p)
  \/ \E b \in BookIds : onQuantityChange(b, 1)
  \/ BooksConfirmBorrow
  \/ BorrowConfirmBorrow
  \/ processBorrow
  \/ onRefreshMyBooks
  \/ \E b \in BookIds, q \in 1..MaxQty : returnBooks(<<b>>, <<q>>)

SpecCopies == Init /\ [][NextCopies]_vars

\* a member who sends the payment form a second time while the first
\* processPayment call is in its delay of 2000 ms
NextPayTwice ==
  \/ Login("LIB000001")
  \/ DeliverBorrowInfo
  \/ RefreshUserData
  \/ \E p \in {"books", "fines"} : Navigate(p)
  \/ \E b \in BookIds : onQuantityChange(b, 1)
  \/ BooksConfirmBorrow
  \/ AdvanceClock
  \/ DeliverFines
  \/ \E id \in 1..MaxFineId : onFineSelectionChange(id, TRUE)
  \/ onPaySelected
  \/ onPaymentMethodSelect
  \/ SubmitPayment(MaxInflight + 1, MaxPayments + 1)
  \/ PaymentSucceeds

SpecPayTwice == Init /\ [][NextPayTwice]_vars

SpecService == Init /\ [][NextService]_vars

Spec == Init /\ [][NextScreens]_vars

SpecFines == Init /\ [][NextFines]_vars

(***************************************************************************)
(* Inventory                                                               *)
(***************************************************************************)

\* C1: after any sequence of inventory operations every book has
\* 0 <= availableCopies <= totalCopies.
C1_CopiesWithinTotal ==
  \A b \in BookIds :
    /\ 0 <= books[b].availableCopies
    /\ books[b].availableCopies <= books[b].totalCopies

\* the records a step pushed behind the ledger
Appended == SubSeq(borrowRecords', Len(borrowRecords) + 1, Len(borrowRecords'))

RecordsOf(records, memberId, bookId) ==
  SelectSeq(records, LAMBDA r : r.memberId = memberId /\ r.bookId = bookId)

\* C2: a confirmed borrow of q >= 1 copies of a book with availableCopies >= q
\* takes exactly q copies off availableCopies and pushes exactly q records of
\* the member and the book behind borrow_records, each without a return date
\* and due 14 days after its borrow date.
C2_ConfirmBorrow ==
  [][(BooksConfirmBorrow \/ processBorrow) =>
       /\ SubSeq(borrowRecords', 1, Len(borrowRecords)) = borrowRecords
       /\ \A b \in DOMAIN selectedBooks :
            (selectedBooks[b] >= 1 /\ books[b].availableCopies >= selectedBooks[b]) =>
              /\ books'[b].availableCopies = books[b].availableCopies - selectedBooks[b]
              /\ Len(RecordsOf(Appended, userData.user, b)) = selectedBooks[b]
              /\ Len(SelectSeq(Appended, LAMBDA r : r.bookId = b)) = selectedBooks[b]
              /\ \A i \in 1..Len(Appended) :
                   Appended[i].bookId = b =>
                     /\ NotReturned(Appended[i])
                     /\ Appended[i].borrowDate = now
                     /\ Appended[i].dueDate =
                          Appended[i].borrowDate + BORROW_PERIOD_DAYS * DayTicks]_vars

\* two copies of BK008 were borrowed at a later instant by one confirmation
C2_Witness ==
  /\ Len(borrowRecords) = 2
  /\ books["BK008"].availableCopies = createMockBooks["BK008"].availableCopies - 2
  /\ \A i \in 1..2 :
       /\ borrowRecords[i].bookId = "BK008"
       /\ borrowRecords[i].borrowDate > 0
       /\ borrowRecords[i].dueDate = borrowRecords[i].borrowDate + BORROW_PERIOD_DAYS * DayTicks
       /\ NotReturned(borrowRecords[i])

\* a request that asks for more than there is, or for a book that is not there
Insufficient(bks, bookIds, quantities) ==
  \E i \in 1..Len(bookIds) : ~CanBorrow(bks, bookIds[i], QuantityOrOne(quantities[i]))

\* C3: a borrow request for more copies than available, or for an unknown
\* book, fails and leaves every availableCopies and the persisted catalog as
\* they were.
C3_InsufficientFails ==
  [][/\ \A r \in Requests :
          (Insufficient(books, r[1], r[2]) /\ borrowBooks(r[1], r[2])) =>
            ~ret'.ok /\ books' = books /\ storedBooks' = storedBooks
     /\ \A b \in BookIds \cup {UnknownBook}, q \in 1..MaxQty :
          (~CanBorrow(books, b, q) /\ updateBookInventory(b, q)) =>
            ~ret'.ok /\ books' = books /\ storedBooks' = storedBooks]_vars

\* the unreturned records of a book in the ledger
Outstanding(records, bookId) ==
  Cardinality({i \in 1..Len(records) :
                 records[i].bookId = bookId /\ NotReturned(records[i])})

\* C4: a return credits a book by one copy for a record that was not returned
\* before and marks it returned, so that no record is credited twice.
C4_ReturnOnce ==
  [][\A r \in Requests :
       returnBooks(r[1], r[2]) =>
         \A b \in BookIds :
           books'[b].availableCopies - books[b].availableCopies
             <= Outstanding(borrowRecords, b) - Outstanding(borrowRecords', b)]_vars

(***************************************************************************)
(* Fines                                                                   *)
(***************************************************************************)

\* the least number of whole days that cover a span of ticks
LeastDays(span) ==
  CHOOSE n \in 0..span : n * DayTicks >= span /\ \A k \in 0..(n - 1) : k * DayTicks < span

\* C5: the fine is 0 when the reference date is not after the due date;
\* otherwise daysOverdue is the span rounded up to whole days and the fine is
\* 5 for each of them; the fine never falls as the reference date moves on; a
\* loan returned 5 days late has daysOverdue = 5 and totalFine = 25.
C5_Fine ==
  LET due == args.dueDate
      ref == args.current
      days == IF ref <= due THEN 0 ELSE LeastDays(ref - due)
  IN /\ result.fn = "calculateFineForBook" =>
          /\ result.out = [daysOverdue |-> days, totalFine |-> days * 5]
          /\ ref = due + 5 * DayTicks => result.out = [daysOverdue |-> 5, totalFine |-> 25]
          /\ \A later \in ref..MaxDate :
               calculateFineForBook(due, later).totalFine >= result.out.totalFine
     /\ result.fn = "calculateBookFine" =>
          /\ result.out = days * 5
          /\ \A later \in ref..MaxDate : calculateBookFine(due, later) >= result.out

\* a loan returned five days late
C5_Witness ==
  /\ result.fn = "calculateFineForBook"
  /\ args.current = args.dueDate + 5 * DayTicks
  /\ result.out.totalFine = 25

FineKey(f) == <<f.bookId, f.memberId, f.dueDate>>

\* C6: a second generation of the fines of a member right after the first
\* leaves the fine records as the first left them: it creates no record and
\* so none with the key of a record that is there.
C6_GenerateIdempotent ==
  \A m \in Members :
    LET once == generateFineRecordsFromBorrowData(fines, borrowRecords, m, now)
        twice == generateFineRecordsFromBorrowData(once, borrowRecords, m, now)
    IN /\ twice = once
       /\ Len(twice) = Len(once)

\* beside fines that are there, the first generation creates one for a member
C6_Witness ==
  /\ fines # <<>>
  /\ \E m \in Members :
       Len(generateFineRecordsFromBorrowData(fines, borrowRecords, m, now)) > Len(fines)

\* C7: fine_records holds at most one FineRecord for a book, a member and a
\* due date.
C7_OneFinePerKey ==
  \A i, j \in 1..Len(fines) : FineKey(fines[i]) = FineKey(fines[j]) => i = j

\* the request names one pending fine of its member and the amount of that fine
SingleFineRequest(request) ==
  /\ Cardinality(request.fineIds) = 1
  /\ \E i \in 1..Len(fines) :
       /\ request.fineIds = {fines[i].id}
       /\ fines[i].memberId = request.memberId
       /\ fines[i].status = "pending"
       /\ fines[i].totalFine = request.totalAmount

\* C8: a successful payment of the one pending fine of amount A of a member
\* turns that fine paid, creates exactly one PaymentRecord, of amount A and of
\* that member, and the fines getUserFines returns afterwards do not include it.
C8_PaymentSettles ==
  [][(PaymentSucceeds /\ SingleFineRequest(Head(inflight))) =>
       LET request == Head(inflight)
           id == CHOOSE x \in request.fineIds : TRUE
           after == generateFineRecordsFromBorrowData(fines', borrowRecords',
                                                      request.memberId, now')
       IN /\ FineById(fines', id).status = "paid"
          /\ Len(payments') = Len(payments) + 1
          /\ Tail(payments') = payments
          /\ payments'[1].amount = request.totalAmount
          /\ payments'[1].memberId = request.memberId
          /\ storedPayments' = payments'
          /\ storedFines' = fines'
          /\ \A i \in 1..Len(emitted'[1]) : emitted'[1][i] # id
          /\ \A f \in {PendingFinesOf(after, request.memberId)[i] :
                         i \in 1..Len(PendingFinesOf(after, request.memberId))} : f.id # id]_vars

\* a payment of one fine of 5 has gone through
C8_Witness ==
  /\ ret.op = "processPayment" /\ ret.ok
  /\ Len(payments) = 1
  /\ payments[1].amount = DAILY_FINE_RATE
  /\ Len(payments[1].fineRecords) = 1
  /\ FineById(fines, payments[1].fineRecords[1].id).status = "paid"
  /\ payments[1].memberId = payments[1].fineRecords[1].memberId

\* C9: a payment that fails reports one of the fixed reasons and leaves the
\* fines and the payments as they were, in memory and in the store; the
\* payments change only by a payment that succeeds.
C9_FailureChangesNothing ==
  [][/\ (ret'.op = "processPayment" /\ ~ret'.ok) =>
          /\ ret'.reason \in 1..FAILURE_REASONS
          /\ fines' = fines /\ storedFines' = storedFines
          /\ payments' = payments /\ storedPayments' = storedPayments
     /\ (payments' # payments \/ storedPayments' # storedPayments) =>
          ret'.op = "processPayment" /\ ret'.ok]_vars

\* a payment of a pending fine has failed
C9_Witness ==
  /\ ret.op = "processPayment" /\ ~ret.ok
  /\ \E i \in 1..Len(fines) : fines[i].status = "pending" /\ fines[i].id \in selectedFines
  /\ payments = <<>>

\* C10: with a pending fine a member is never eligible; with 5 books borrowed
\* a member is not eligible; with no fines, no overdue books and 4 books
\* borrowed a member is eligible, and a selection of 1 copy is accepted and one
\* of 2 copies is rejected.
C10_Eligibility ==
  LET four == args.fines = 0 /\ args.overdueBooks = 0
              /\ args.currentBorrowedCount = MAX_BOOKS_PER_USER - 1
  IN /\ result.fn = "getUserBorrowInfo" =>
          /\ args.fines > 0 => ~result.out
          /\ args.currentBorrowedCount = MAX_BOOKS_PER_USER => ~result.out
          /\ four => result.out
     /\ result.fn = "validateUserEligibility" =>
          /\ args.fines > 0 => result.out = "fines"
          /\ args.currentBorrowedCount = MAX_BOOKS_PER_USER => result.out # "welcome"
          /\ four => result.out = "welcome"
     /\ result.fn = "confirmBorrow" =>
          /\ (four /\ args.quantity = 1) => result.out
          /\ (four /\ args.quantity = 2) => ~result.out

\* a member with 4 books and nothing owed asks for 2 copies and is turned down
C10_Witness ==
  /\ result.fn = "confirmBorrow"
  /\ args.fines = 0 /\ args.overdueBooks = 0
  /\ args.currentBorrowedCount = MAX_BOOKS_PER_USER - 1
  /\ args.quantity = 2
  /\ ~result.out

(***************************************************************************)
(* Borrow limit and counts                                                 *)
(***************************************************************************)

\* the records of a member that have no return date
OutstandingOf(records, memberId) ==
  Cardinality({i \in 1..Len(records) :
                 records[i].memberId = memberId /\ NotReturned(records[i])})

\* C11: no member ever has more than 5 unreturned records in borrow_records.
C11_AtMostFive ==
  \A m \in Members : OutstandingOf(borrowRecords, m) <= MAX_BOOKS_PER_USER

\* C12: the currentBorrowedCount computed for a member equals the number of
\* the records of the member in borrow_records that have no return date.
C12_CountIsOutstanding ==
  \A m \in Members :
    getUserBorrowInfo(borrowRecords, m, now).currentBorrowedCount
      = OutstandingOf(borrowRecords, m)

(***************************************************************************)
(* Members and sessions                                                    *)
(***************************************************************************)

\* the same address but for the case of its letters
CaseVariant(a, b) == a # b /\ a.name = b.name /\ a.pad = b.pad

\* C13: registerMember with an email that differs only in letter case from
\* the email of a registered member fails with the duplicate-email error and
\* leaves registered_users as it was.
C13_DuplicateEmailCase ==
  [][\A memberData \in MemberRequests :
       (/\ registerMember(memberData)
        /\ \E i \in 1..Len(registeredUsers) :
             CaseVariant(registeredUsers[i].email, memberData.email)) =>
         /\ ~ret'.ok
         /\ ret'.reason = "Email already registered."
         /\ registeredUsers' = registeredUsers]_vars

\* a registration in capitals of the address of a member was turned down
C13_Witness ==
  /\ ret.op = "registerMember" /\ ~ret.ok
  /\ ret.email.caps
  /\ \E i \in 1..Len(registeredUsers) : CaseVariant(registeredUsers[i].email, ret.email)

\* C14: no two registered members have the same member identifier.
C14_UniqueMemberId ==
  \A i, j \in 1..Len(registeredUsers) :
    registeredUsers[i].id = registeredUsers[j].id => i = j

\* C15: no two registered members share an email, compared without regard to
\* case, and no two share a pair of country code and mobile number.
C15_UniqueEmailAndMobile ==
  \A i, j \in 1..Len(registeredUsers) :
    i # j =>
      /\ registeredUsers[i].email.name # registeredUsers[j].email.name
           \/ registeredUsers[i].email.pad # registeredUsers[j].email.pad
      /\ <<registeredUsers[i].countryCode, registeredUsers[i].mobileNumber>>
           # <<registeredUsers[j].countryCode, registeredUsers[j].mobileNumber>>

\* the members whose email is the given one but for case and blanks around it,
\* and whose password is the given one
Matching(users, credentials) ==
  {i \in 1..Len(users) :
     /\ users[i].email.name = credentials.email.name
     /\ users[i].password = credentials.password}

\* C16: AuthService.login sets the current user exactly when a registered
\* member has the email, compared without regard to case and blanks around
\* it, and exactly the password; the current user is then such a member; a
\* login that fails leaves the current user as it was.
C16_LoginIffMember ==
  [][\A credentials \in [email : Emails, password : Passwords] :
       AuthLogin(credentials) =>
         /\ ret'.ok <=> Matching(registeredUsers, credentials) # {}
         /\ ret'.ok =>
              \E i \in Matching(registeredUsers, credentials) :
                currentUser' = registeredUsers[i].id
         /\ ~ret'.ok => currentUser' = currentUser]_vars


(***************************************************************************)
(* The ledger                                                              *)
(***************************************************************************)
IsPrefix(s, t) == Len(s) <= Len(t) /\ SubSeq(t, 1, Len(s)) = s

\* C17: the ledger is append-only: whatever a borrow confirmation, a fines page,
\* a payment or the history page does, the records that were in borrow_records
\* before the step are there after it, unchanged and in their places.
C17_AppendOnly ==
  [][IsPrefix(borrowRecords, borrowRecords')]_vars

\* the history page has filled the ledger, a borrow confirmation has added to it
\* and a payment has been made
C17_Witness ==
  /\ Len(borrowRecords) > 5
  /\ "id" \in DOMAIN borrowRecords[1]
  /\ "quantity" \in DOMAIN borrowRecords[Len(borrowRecords)]
  /\ payments # <<>>

(***************************************************************************)
(* Two tabs                                                                *)
(***************************************************************************)

\* C18: when the BookService of either tab reports a borrow of q copies of a book
\* as done, the store both tabs share held at least q available copies of the
\* book before the call and holds q fewer after it; so the last copy is lent once.
C18_SafeDeltas ==
  [][\A b \in BookIds, q \in 1..MaxQty :
       ((borrowBooks(<<b>>, <<q>>) \/ TabBorrowBooks(<<b>>, <<q>>)) /\ ret'.ok)
         => /\ storedBooks[b].availableCopies >= q
            /\ storedBooks'[b].availableCopies = storedBooks[b].availableCopies - q]_vars

(***************************************************************************)
(* Complaints                                                              *)
(***************************************************************************)

\* the place of a status in the chain Open, In Progress, Resolved, Closed
Rank(status) ==
  CASE status = "Open" -> 1
    [] status = "In Progress" -> 2
    [] status = "Resolved" -> 3
    [] status = "Closed" -> 4

\* C19: a complaint starts as Open, and no step moves a complaint to a status
\* that comes earlier in the chain Open, In Progress, Resolved, Closed.
C19_StatusForward ==
  [][\A j \in 1..Len(complaints') :
       IF \E i \in 1..Len(complaints) : complaints[i].id = complaints'[j].id
         THEN \A i \in 1..Len(complaints) :
                complaints[i].id = complaints'[j].id
                  => Rank(complaints'[j].status) >= Rank(complaints[i].status)
         ELSE complaints'[j].status = "Open"]_vars

(***************************************************************************)
(* Eligibility at the borrow screens                                       *)
(***************************************************************************)

\* the member has a loan that is overdue, on which a fine runs, or holds
\* MAX_BOOKS_PER_USER copies or more
Ineligible(records, memberId, today) ==
  \/ \E i \in 1..Len(records) :
       /\ records[i].memberId = memberId
       /\ NotReturned(records[i])
       /\ today > records[i].dueDate
  \/ OutstandingOf(records, memberId) >= MAX_BOOKS_PER_USER

\* C20: a borrow confirmation, on either screen, by a member who is not
\* eligible changes neither the catalog nor the ledger.
C20_IneligibleRejected ==
  [][((BooksConfirmBorrow \/ processBorrow)
        /\ Ineligible(borrowRecords, userData.user, now))
       => UNCHANGED <<books, storedBooks, borrowRecords>>]_vars


(***************************************************************************)
(* The status of a borrow record                                           *)
(***************************************************************************)

\* C21: both views give a record the status Returned when it has a return date,
\* whatever the due date; without one, Overdue exactly when the due date is
\* before now, else Borrowed; and a record seen as Returned is seen as Returned
\* at every later instant.
C21_DerivedStatus ==
  [][/\ result'.out = (IF args'.returnDate # NoDate THEN "Returned"
                       ELSE IF args'.dueDate < args'.today THEN "Overdue"
                       ELSE "Borrowed")
     /\ (result.fn # None /\ result.out = "Returned") => result'.out = "Returned"]_vars

\* a record returned before it fell due is looked at after the due date
C21_Witness ==
  /\ args.fn = "status"
  /\ result.fn = "determineStatus"
  /\ args.returnDate # NoDate
  /\ args.returnDate < args.dueDate
  /\ args.today > args.dueDate
  /\ result.out = "Returned"


(***************************************************************************)
(* The availability flag                                                   *)
(***************************************************************************)

\* C22: for every book, in the catalog of the service and in the store,
\* isAvailable is true exactly when availableCopies > 0.
C22_FlagMatchesCopies ==
  \A b \in BookIds :
    /\ books[b].isAvailable <=> (books[b].availableCopies > 0)
    /\ storedBooks[b].isAvailable <=> (storedBooks[b].availableCopies > 0)


(***************************************************************************)
(* Where the records of the ledger come from                               *)
(***************************************************************************)

\* C23: a step that adds records to borrow_records is a borrow confirmation, and
\* every record it adds is for the member who confirms and a book of the
\* selection.
C23_RecordsFromBorrows ==
  [][Len(borrowRecords') > Len(borrowRecords)
       => /\ BooksConfirmBorrow \/ processBorrow
          /\ \A i \in (Len(borrowRecords) + 1)..Len(borrowRecords') :
               /\ borrowRecords'[i].memberId = userData.user
               /\ borrowRecords'[i].bookId \in DOMAIN selectedBooks]_vars


(***************************************************************************)
(* Paid fines                                                              *)
(***************************************************************************)

C25_CopiesConserved ==
  \A b \in BookIds :
    books[b].availableCopies + Outstanding(borrowRecords, b)
      = createMockBooks[b].availableCopies


(***************************************************************************)
(* The quantities of one borrowBooks call                                  *)
(***************************************************************************)

\* the copies of a book that a call asks for in all
Requested(bookIds, quantities, b) ==
  SumSeq([i \in 1..Len(bookIds) |-> IF bookIds[i] = b THEN quantities[i] ELSE 0])

\* C26: after a borrowBooks call with positive quantities that reports success,
\* every book has as many available copies fewer as the call asked for in all,
\* also when a book is named more than once.
C26_DecreasedByRequested ==
  [][\A r \in Requests :
       (/\ \A i \in 1..Len(r[2]) : r[2][i] > 0
        /\ borrowBooks(r[1], r[2])
        /\ ret'.ok)
         => \A b \in BookIds :
              books'[b].availableCopies
                = books[b].availableCopies - Requested(r[1], r[2], b)]_vars


(***************************************************************************)
(* Payments                                                                *)
(***************************************************************************)

\* the ids of the fines a payment record lists
SettledBy(payment) ==
  {payment.fineRecords[k].id : k \in 1..Len(payment.fineRecords)}

\* C27: no fine is listed in the fineRecords of two completed payments.
C27_SettledOnce ==
  \A p, q \in 1..Len(payments) :
    p # q => SettledBy(payments[p]) \cap SettledBy(payments[q]) = {}


\* C28: the amount of every completed payment is the sum of totalFine over the
\* fines the payment lists.
C28_AmountIsTotal ==
  \A p \in 1..Len(payments) :
    payments[p].amount
      = SumSeq([k \in 1..Len(payments[p].fineRecords) |->
                  payments[p].fineRecords[k].totalFine])


(***************************************************************************)
(* The shared user data                                                    *)
(***************************************************************************)

\* C29: in the user data, a borrow info is there only together with a user, and
\* it is the borrow info of that user.
C29_UserDataConsistent ==
  /\ userData.user = None => ~HasInfo(userData.borrowInfo)
  /\ (userData.user # None /\ HasInfo(userData.borrowInfo))
       => userData.borrowInfo.libraryId = userData.user


(***************************************************************************)
(* Closed complaints                                                       *)
(***************************************************************************)

\* C30: a complaint that is Closed is Closed after every step.
C30_ClosedIsFinal ==
  [][\A i \in 1..Len(complaints) :
       complaints[i].status = "Closed"
         => \E j \in 1..Len(complaints') :
              /\ complaints'[j].id = complaints[i].id
              /\ complaints'[j].status = "Closed"]_vars

=============================================================================
